---- MODULE Spec2Model ----
(***************************************************************************)
(* Model of the data pipeline of src/src/pipeline.py, its text-generation  *)
(* helper src/src/llm_utils.py and the HTTP endpoint of src/src/service.py.*)
(*                                                                         *)
(* A DataFrame is a record                                                 *)
(*   columns : the column labels, in order                                 *)
(*   dtypes  : column label -> dtype name                                  *)
(*   index   : the row labels, in order (0, 1, 2, ... when loaded)         *)
(*   data    : the rows, in order; a row maps each column label to a cell  *)
(* A cell is NA (NaN / None / NaT) or Val(v).  Numeric cells hold the      *)
(* number in halves (Val(3) is 1.5), so that the median of an even number  *)
(* of whole inputs is exact.                                               *)
(***************************************************************************)
EXTENDS Integers, Sequences, FiniteSets, TLC

\* ------------------------------------------------------------------ bounds
\* Exhaustive datasets have at most MaxCells cells (rows * columns).
MaxCells == 5
\* The structured (tall) datasets have at most MaxTall rows.
MaxTall == 20
\* compute_eda_summary is called with max_categories in 0..MaxCat.
MaxCat == 3
\* The files the pipeline and the endpoint load have at most MaxFileCells cells.
MaxFileCells == 2

\* ------------------------------------------------------------------ cells
NA == [null |-> TRUE]
Val(v) == [null |-> FALSE, val |-> v]
IsNull(cell) == cell.null

\* np.number covers the integer and floating dtypes; "object" is text;
\* datetime64[ns] is neither.
NumberDtypes == {"int64", "float64"}
ObjectDtypes == {"object"}

\* The text values that occur, in code-point order ("Unknown" < "a" < "b").
StrOrder == <<"Unknown", "a", "b">>
\* The texts of the set vals in ascending order.
sort_strings(vals) == SelectSeq(StrOrder, LAMBDA v : v \in vals)

\* ------------------------------------------------------------------ helpers
RECURSIVE SeqSum(_)
SeqSum(s) == IF s = <<>> THEN 0 ELSE Head(s) + SeqSum(Tail(s))

Range(s) == {s[i] : i \in DOMAIN s}

\* Insertion of v into the ascending sequence s.
RECURSIVE InsertSorted(_, _)
InsertSorted(s, v) ==
    IF s = <<>> THEN <<v>>
    ELSE IF Head(s) <= v THEN <<Head(s)>> \o InsertSorted(Tail(s), v)
    ELSE <<v>> \o s

\* The numbers of s in ascending order.
RECURSIVE sort_values(_)
sort_values(s) ==
    IF s = <<>> THEN <<>>
    ELSE InsertSorted(sort_values(SubSeq(s, 1, Len(s) - 1)), s[Len(s)])

\* The cells of one column, in row order.
Column(df, col) == [i \in DOMAIN df.data |-> df.data[i][col]]
\* Series.dropna(): the values of the non-missing cells, in row order.
RECURSIVE DropNa(_)
DropNa(cells) ==
    IF cells = <<>> THEN <<>>
    ELSE IF IsNull(Head(cells)) THEN DropNa(Tail(cells))
    ELSE <<Head(cells).val>> \o DropNa(Tail(cells))

MissingCount(df, col) == Cardinality({i \in DOMAIN df.data : IsNull(df.data[i][col])})
RowCount(df) == Len(df.data)

\* select_dtypes(include=...): the columns of the given dtypes, in order.
select_dtypes(df, dtypes) == SelectSeq(df.columns, LAMBDA c : df.dtypes[c] \in dtypes)

\* ------------------------------------------------------------------ cleaning
\* missing_ratio > 0.8, as tenths.
MissingThresholdTenths == 8

\* isnull().mean() > 0.8: the mean of an empty column is NaN, and NaN > 0.8
\* is False, so nothing is selected when there are no rows.
\* (cols_to_drop_ge: the same selection with >= for >.)
cols_to_drop_ge(df) ==
    SelectSeq(df.columns, LAMBDA c :
        RowCount(df) > 0 /\ 10 * MissingCount(df, c) >= MissingThresholdTenths * RowCount(df))
cols_to_drop(df) ==
    SelectSeq(df.columns, LAMBDA c :
        RowCount(df) > 0 /\ 10 * MissingCount(df, c) > MissingThresholdTenths * RowCount(df))

\* DataFrame.drop(columns=...): a new frame without the listed columns.
drop_columns(df, cols) ==
    LET keep == SelectSeq(df.columns, LAMBDA c : c \notin Range(cols))
    IN  [columns |-> keep,
         dtypes  |-> [c \in Range(keep) |-> df.dtypes[c]],
         index   |-> df.index,
         data    |-> [i \in DOMAIN df.data |-> [c \in Range(keep) |-> df.data[i][c]]]]

\* Series.median(): NA when no value is present.
median(cells) ==
    LET s == sort_values(DropNa(cells))
        n == Len(s)
    IN  IF n = 0 THEN NA
        ELSE IF n % 2 = 1 THEN Val(s[(n + 1) \div 2])
        ELSE Val((s[n \div 2] + s[n \div 2 + 1]) \div 2)

\* Series.fillna(value): fillna(NaN) changes nothing.
fillna(cells, value) == [i \in DOMAIN cells |-> IF IsNull(cells[i]) THEN value ELSE cells[i]]

\* df[col] = cells: the column is replaced in place.
setitem(df, col, cells) ==
    [df EXCEPT !.data = [i \in DOMAIN df.data |-> [df.data[i] EXCEPT ![col] = cells[i]]]]

\* (fill_numeric_skip: the loop with the assignment left out.)
fill_numeric_skip(df, cols) == df
RECURSIVE fill_numeric(_, _)
fill_numeric(df, cols) ==
    IF cols = <<>> THEN df
    ELSE LET col == Head(cols)
             median_val == median(Column(df, col))
         IN  fill_numeric(setitem(df, col, fillna(Column(df, col), median_val)), Tail(cols))

\* The distinct values of a sequence, in order of first appearance.
RECURSIVE Unique(_)
Unique(s) ==
    IF s = <<>> THEN <<>>
    ELSE LET u == Unique(SubSeq(s, 1, Len(s) - 1))
         IN  IF s[Len(s)] \in Range(u) THEN u ELSE Append(u, s[Len(s)])

Occurrences(vals, v) == Cardinality({i \in DOMAIN vals : vals[i] = v})

\* Series.mode(): the most frequent non-missing values, sorted.
mode(cells) ==
    LET vals == DropNa(cells)
        best == {v \in Range(vals) : \A w \in Range(vals) : Occurrences(vals, w) <= Occurrences(vals, v)}
    IN  sort_strings(best)

\* mode_vals.iloc[0] if not mode_vals.empty else "Unknown"
\* (fill_val_last: iloc[-1] for iloc[0].)
fill_val_last(mode_vals) == IF mode_vals # <<>> THEN Val(mode_vals[Len(mode_vals)]) ELSE Val("Unknown")
fill_val(mode_vals) == IF mode_vals # <<>> THEN Val(mode_vals[1]) ELSE Val("Unknown")

RECURSIVE fill_object(_, _)
fill_object(df, cols) ==
    IF cols = <<>> THEN df
    ELSE LET col == Head(cols)
             cells == Column(df, col)
         IN  IF \E i \in DOMAIN cells : IsNull(cells[i])
             THEN fill_object(setitem(df, col, fillna(cells, fill_val(mode(cells)))), Tail(cols))
             ELSE fill_object(df, Tail(cols))

\* DataFrame.drop_duplicates(): a new frame keeping, of the rows with equal
\* values, the first; NA equals NA; the kept rows keep their index labels.
KeptFirst(df) == {i \in DOMAIN df.data : \A j \in 1..(i - 1) : df.data[j] # df.data[i]}
TakeRows(df, keep) ==
    LET pos == SelectSeq([i \in DOMAIN df.data |-> i], LAMBDA i : i \in keep)
    IN  [df EXCEPT !.index = [k \in DOMAIN pos |-> df.index[pos[k]]],
                   !.data = [k \in DOMAIN pos |-> df.data[pos[k]]]]
\* DataFrame.empty: some axis has length 0.
IsEmpty(df) == Len(df.columns) = 0 \/ Len(df.data) = 0
\* An empty frame (no rows, or no columns) is returned as a plain copy.
drop_duplicates(df) == IF IsEmpty(df) THEN df ELSE TakeRows(df, KeptFirst(df))

\* ------------------------------------------------------------------ objects
\* The heap is the sequence of the frames allocated so far; a reference is a
\* position in it.  A call returns the heap it leaves and the reference it
\* returns.
Alloc(heap, df) == [heap |-> Append(heap, df), ref |-> Len(heap) + 1]

\* df.copy(): a new frame with the same content.
\* (df_copy_alias: df_clean = df, no copy.)
df_copy_alias(heap, ref) == [heap |-> heap, ref |-> ref]
df_copy(heap, ref) == Alloc(heap, heap[ref])

\* The steps of simple_clean_dataframe on the state st: the heap and the
\* frame df_clean names.  drop() and drop_duplicates() return new frames;
\* df_clean[col] = ... writes into the frame df_clean names at that moment.
\* 1) Drop columns that are mostly missing
step_drop_columns(st) ==
    IF cols_to_drop(st.heap[st.ref]) # <<>>
    THEN Alloc(st.heap, drop_columns(st.heap[st.ref], cols_to_drop(st.heap[st.ref])))
    ELSE st
\* 2) Fill numeric NaNs with median
step_fill_numeric(st) ==
    [st EXCEPT !.heap[st.ref] = fill_numeric(@, select_dtypes(@, NumberDtypes))]
\* 3) Fill object NaNs with mode
step_fill_object(st) ==
    [st EXCEPT !.heap[st.ref] = fill_object(@, select_dtypes(@, ObjectDtypes))]
\* 4) Drop duplicate rows
step_drop_duplicates(st) == Alloc(st.heap, drop_duplicates(st.heap[st.ref]))

\* simple_clean_dataframe(df) called with df = heap[ref]: the heap it leaves
\* and the reference it returns.
simple_clean_dataframe_call(heap, ref) ==
    step_drop_duplicates(step_fill_object(step_fill_numeric(step_drop_columns(df_copy(heap, ref)))))

\* The frame simple_clean_dataframe returns for the frame df.
Deref(st) == st.heap[st.ref]
simple_clean_dataframe(df) == Deref(simple_clean_dataframe_call(<<df>>, 1))
\* ------------------------------------------------------------------ summary
\* A float result: NaN, or the exact fraction num / den.
NaN == [nan |-> TRUE]
Frac(n, d) == [nan |-> FALSE, num |-> n, den |-> d]
EmptyDict == [k \in {} |-> 0]

\* summary["missing_values"]: count and count / len(df) * 100 of the columns
\* with missing_counts[col] > 0.
\* (missing_values_all: the comprehension without its filter.)
missing_values_all(df) ==
    [c \in Range(df.columns) |->
        [count |-> MissingCount(df, c), pct |-> Frac(100 * MissingCount(df, c), RowCount(df))]]
missing_values(df) ==
    [c \in {c \in Range(df.columns) : MissingCount(df, c) > 0} |->
        [count |-> MissingCount(df, c), pct |-> Frac(100 * MissingCount(df, c), RowCount(df))]]

\* Series.quantile(q / 4), linear interpolation, of the ascending values s.
quantile(s, q) ==
    IF s = <<>> THEN NaN
    ELSE LET pos == (Len(s) - 1) * q
             lo  == pos \div 4 + 1
             hi  == IF lo < Len(s) THEN lo + 1 ELSE lo
         IN  Frac(4 * s[lo] + (pos % 4) * (s[hi] - s[lo]), 4)

\* DataFrame.describe() of one numeric column ("std" holds the variance,
\* whose root std is).
describe(cells) ==
    LET vals == DropNa(cells)
        s    == sort_values(vals)
        n    == Len(vals)
        sum  == SeqSum(vals)
        sq   == SeqSum([i \in DOMAIN vals |-> vals[i] * vals[i]])
    IN  [count |-> n,
         mean  |-> IF n = 0 THEN NaN ELSE Frac(sum, n),
         std   |-> IF n < 2 THEN NaN ELSE Frac(n * sq - sum * sum, n * (n - 1)),
         min   |-> IF n = 0 THEN NaN ELSE Frac(s[1], 1),
         q25   |-> quantile(s, 1),
         q50   |-> quantile(s, 2),
         q75   |-> quantile(s, 3),
         max   |-> IF n = 0 THEN NaN ELSE Frac(s[n], 1)]

\* if numeric_cols: summary["numeric_stats"] = df[numeric_cols].describe().to_dict()
numeric_stats(df, numeric_cols) ==
    IF numeric_cols # <<>>
    THEN [c \in Range(numeric_cols) |-> describe(Column(df, c))]
    ELSE EmptyDict

\* Series.value_counts(): the non-missing values with their counts, most
\* frequent first, equally frequent values in order of first appearance.
RECURSIVE InsertByCount(_, _)
InsertByCount(s, p) ==
    IF s = <<>> THEN <<p>>
    ELSE IF Head(s).count >= p.count THEN <<Head(s)>> \o InsertByCount(Tail(s), p)
    ELSE <<p>> \o s

RECURSIVE SortByCount(_)
SortByCount(s) ==
    IF s = <<>> THEN <<>>
    ELSE InsertByCount(SortByCount(SubSeq(s, 1, Len(s) - 1)), s[Len(s)])

value_counts(cells) ==
    LET vals == DropNa(cells)
        u    == Unique(vals)
    IN  SortByCount([i \in DOMAIN u |-> [value |-> u[i], count |-> Occurrences(vals, u[i])]])

\* Series.head(n) for n >= 0.
\* (head_one_more: the first n + 1 items.)
head_one_more(s, n) == SubSeq(s, 1, IF n + 1 < Len(s) THEN n + 1 ELSE Len(s))
head(s, n) == SubSeq(s, 1, IF n < Len(s) THEN n ELSE Len(s))

\* summary["categorical_top_values"][col] for every object column; the
\* ordered dict is the sequence of its items.
categorical_top_values(df, max_categories) ==
    [c \in Range(select_dtypes(df, ObjectDtypes)) |->
        head(value_counts(Column(df, c)), max_categories)]

\* DataFrame.corr() entry: Pearson over the rows where both cells are
\* present, as the covariance and the two variances (each times n * n); NaN
\* when a variance is zero or no row has both.
pearson(df, a, b) ==
    LET rows == SelectSeq(df.data, LAMBDA r : ~IsNull(r[a]) /\ ~IsNull(r[b]))
        n    == Len(rows)
        sa   == SeqSum([i \in DOMAIN rows |-> rows[i][a].val])
        sb   == SeqSum([i \in DOMAIN rows |-> rows[i][b].val])
        sab  == SeqSum([i \in DOMAIN rows |-> rows[i][a].val * rows[i][b].val])
        saa  == SeqSum([i \in DOMAIN rows |-> rows[i][a].val * rows[i][a].val])
        sbb  == SeqSum([i \in DOMAIN rows |-> rows[i][b].val * rows[i][b].val])
        va   == n * saa - sa * sa
        vb   == n * sbb - sb * sb
    IN  IF n = 0 \/ va = 0 \/ vb = 0 THEN NaN
        ELSE [nan |-> FALSE, cov |-> n * sab - sa * sb, var_a |-> va, var_b |-> vb]

\* if len(numeric_cols) >= 2: summary["correlations"] = df[numeric_cols].corr().to_dict()
\* (correlations_any: the guard with >= 1 for >= 2.)
correlations_any(df, numeric_cols) ==
    IF Len(numeric_cols) >= 1
    THEN [a \in Range(numeric_cols) |-> [b \in Range(numeric_cols) |-> pearson(df, a, b)]]
    ELSE EmptyDict
correlations(df, numeric_cols) ==
    IF Len(numeric_cols) >= 2
    THEN [a \in Range(numeric_cols) |-> [b \in Range(numeric_cols) |-> pearson(df, a, b)]]
    ELSE EmptyDict

compute_eda_summary(df, max_categories) ==
    LET numeric_cols == select_dtypes(df, NumberDtypes)
    IN  [shape |-> [rows |-> RowCount(df), columns |-> Len(df.columns)],
         columns |-> df.columns,
         missing_values |-> missing_values(df),
         numeric_stats |-> numeric_stats(df, numeric_cols),
         categorical_top_values |-> categorical_top_values(df, max_categories),
         correlations |-> correlations(df, numeric_cols)]

\* The default of max_categories.
DefaultMaxCategories == 10
\* ------------------------------------------------------------------ calls
\* Optional values, and the outcome of a call: a value, or an exception.
None == [some |-> FALSE]
Some(v) == [some |-> TRUE, v |-> v]
Return(v) == [raised |-> "", value |-> v]
Raise(e) == [raised |-> e]

\* ------------------------------------------------------------------ llm_utils
\* What the HTTP exchange with the text-generation API does.
LlmOutcomes == {"connection_error", "http_error", "invalid_json", "not_a_mapping",
                "no_candidates", "no_parts", "empty_text", "text"}
ReportText == "# EDA report"
FailureStrings == {"LLM EDA report generation failed: no candidates in response",
                   "LLM EDA report generation failed: no parts in response",
                   "LLM EDA report generation failed: empty text in response",
                   "LLM EDA report generation failed (HTTP error)",
                   "LLM EDA report generation failed (unexpected error)"}

\* _ensure_api_key(): raises when GOOGLE_API_KEY is unset or empty.
ensure_api_key(api_key_set) == IF api_key_set THEN Return("key") ELSE Raise("RuntimeError")

\* _call_gemini_http(prompt): the key is fetched before the try block; inside
\* it every exception becomes a string.
call_gemini_http(api_key_set, outcome) ==
    IF ensure_api_key(api_key_set).raised # "" THEN ensure_api_key(api_key_set)
    ELSE CASE outcome = "http_error" ->
                Return("LLM EDA report generation failed (HTTP error)")
           [] outcome \in {"connection_error", "invalid_json", "not_a_mapping"} ->
                Return("LLM EDA report generation failed (unexpected error)")
           [] outcome = "no_candidates" ->
                Return("LLM EDA report generation failed: no candidates in response")
           [] outcome = "no_parts" ->
                Return("LLM EDA report generation failed: no parts in response")
           [] outcome = "empty_text" ->
                Return("LLM EDA report generation failed: empty text in response")
           [] OTHER -> Return(ReportText)

\* generate_eda_report_markdown(eda_summary): the prompt embeds the summary.
generate_eda_report_markdown(eda_summary, api_key_set, outcome) ==
    call_gemini_http(api_key_set, outcome)

\* ------------------------------------------------------------------ pipeline
\* A path is the sequence of its parts between dots; str.lower() on a part.
Lower(part) == CASE part = "XLSX" -> "xlsx" [] part = "CSV" -> "csv" [] OTHER -> part
Extension(path) == Lower(path[Len(path)])

\* load_tabular_file(path): the file's frame as a new object; ValueError for
\* another extension; the reader's FileNotFoundError when there is no file.
load_tabular_file(heap, path, file_exists, file_df) ==
    IF Extension(path) \in {"csv", "xlsx", "xls"}
    THEN IF file_exists THEN Return(Alloc(heap, file_df)) ELSE Raise("FileNotFoundError")
    ELSE Raise("ValueError")

\* The parameters run_full_pipeline declares.
RunFullPipelineParams == {"tabular_path", "pdf_folder"}

\* The FullPipelineResult, with the heap the call leaves.
full_pipeline_result(heap, tabular_result) ==
    Return([heap |-> heap,
            result |-> [tabular |-> tabular_result, pdfs |-> None,
                        executive_report_markdown |-> None]])

\* tabular_result = TabularPipelineResult(...), unless the report raised.
tabular_result(raw_df, cleaned, eda_summary, eda_report_md) ==
    IF eda_report_md.raised # "" THEN eda_report_md
    ELSE full_pipeline_result(cleaned.heap,
            Some([raw_df |-> raw_df,
                  cleaned_df |-> cleaned.ref,
                  eda_summary |-> eda_summary,
                  eda_report_markdown |-> eda_report_md.value]))

\* eda_report_md = generate_eda_report_markdown(eda_summary)
tabular_report(raw_df, cleaned, eda_summary, w) ==
    tabular_result(raw_df, cleaned, eda_summary,
                   generate_eda_report_markdown(eda_summary, w.api_key_set, w.llm))

\* cleaned_df = simple_clean_dataframe(raw_df); eda_summary = compute_eda_summary(cleaned_df)
tabular_clean(loaded, w) ==
    IF loaded.raised # "" THEN loaded
    ELSE tabular_report(loaded.value.ref,
                        simple_clean_dataframe_call(loaded.value.heap, loaded.value.ref),
                        compute_eda_summary(
                            Deref(simple_clean_dataframe_call(loaded.value.heap, loaded.value.ref)),
                            DefaultMaxCategories),
                        w)

\* if tabular_path is not None: raw_df = load_tabular_file(tabular_path) ...
tabular_pipeline(heap, tabular_path, w) ==
    IF ~tabular_path.some THEN full_pipeline_result(heap, None)
    ELSE tabular_clean(load_tabular_file(heap, tabular_path.v, w.file_exists, w.file_df), w)

\* run_full_pipeline(**kwargs) in the world w (the file at the path, the API
\* key, the API's behaviour): the heap it leaves and the FullPipelineResult,
\* or the exception that ends it.  A keyword that is no parameter is a
\* TypeError; a parameter left out is None.
run_full_pipeline(heap, kwargs, w) ==
    IF ~(DOMAIN kwargs \subseteq RunFullPipelineParams) THEN Raise("TypeError")
    ELSE tabular_pipeline(heap,
            IF "tabular_path" \in DOMAIN kwargs THEN kwargs.tabular_path ELSE None, w)

\* ------------------------------------------------------------------ service
\* The JSON body of a successful answer.
response_body(h, result) ==
    IF result.tabular.some
    THEN [raw_rows |-> RowCount(h[result.tabular.v.raw_df]),
          raw_cols |-> Len(h[result.tabular.v.raw_df].columns),
          cleaned_rows |-> RowCount(h[result.tabular.v.cleaned_df]),
          cleaned_cols |-> Len(h[result.tabular.v.cleaned_df].columns),
          columns |-> h[result.tabular.v.cleaned_df].columns,
          eda_report_markdown |-> result.tabular.v.eda_report_markdown]
    ELSE EmptyDict

\* What the handler answers once run_full_pipeline has returned or raised.
respond(called) ==
    IF called.raised # ""
    THEN [status_code |-> 500, detail |-> called.raised]
    ELSE IF ~called.value.result.tabular.some /\ ~called.value.result.pdfs.some
    THEN [status_code |-> 400, detail |-> "No valid inputs provided."]
    ELSE [status_code |-> 200, body |-> response_body(called.value.heap, called.value.result)]

\* run_pipeline_local(request): the HTTP status and the body of the answer.
run_pipeline_local(heap, request, w) ==
    respond(run_full_pipeline(heap,
                [tabular_path |-> request.tabular_path, pdf_paths |-> request.pdf_paths], w))

\* ------------------------------------------------------------------ inputs
\* The columns of the input datasets: their dtypes and the cells they hold.
ColDtype == [x |-> "float64", y |-> "float64", n |-> "int64", c |-> "object",
             t |-> "datetime64[ns]"]
CellChoices == [x |-> <<NA, Val(2), Val(4)>>,
                y |-> <<NA, Val(2)>>,
                n |-> <<Val(2), Val(4)>>,
                c |-> <<NA, Val("a"), Val("b")>>,
                t |-> <<NA, Val("d1")>>]
Schemas == {<<>>, <<"x">>, <<"c">>, <<"t">>, <<"x", "c">>, <<"t", "x">>, <<"x", "n">>,
            <<"x", "c", "n">>}
\* A frame read from a file has rows only if it has columns.
MaxRowsOf(schema) == IF schema = <<>> THEN 0 ELSE MaxCells \div Len(schema)
RowPicks(schema) ==
    {f \in [Range(schema) -> 1..3] : \A col \in Range(schema) : f[col] <= Len(CellChoices[col])}

\* The frame with the given columns whose i-th row holds the picked cells.
Frame(schema, picks) ==
    [columns |-> schema,
     dtypes  |-> [col \in Range(schema) |-> ColDtype[col]],
     index   |-> [i \in DOMAIN picks |-> i - 1],
     data    |-> [i \in DOMAIN picks |-> [col \in Range(schema) |-> CellChoices[col][picks[i][col]]]]]

\* A tall frame of rows rows: column col is missing in the first missing rows
\* and constant below; column x is 1, 2, ... in the first missing rows and
\* constant below.
Tall(col, rows, missing) ==
    [columns |-> <<col, "x">>,
     dtypes  |-> [k \in {col, "x"} |-> ColDtype[k]],
     index   |-> [i \in 1..rows |-> i - 1],
     data    |-> [i \in 1..rows |->
                    [k \in {col, "x"} |->
                        IF k = "x" THEN Val(2 * (IF i <= missing THEN i ELSE missing + 1))
                        ELSE IF i <= missing THEN NA ELSE CellChoices[col][2]]]]

Paths == {<<"data", "csv">>, <<"book", "XLSX">>, <<"notes", "txt">>}
OptionalPaths == {None} \cup {Some(path) : path \in Paths}
OptionalPdfPaths == {None, Some(<<"a.pdf">>)}
\* The worlds a call can run in: no file at the path; a file but no API key;
\* a file, a key and each behaviour of the API.
Worlds ==
    {[file_exists |-> FALSE, api_key_set |-> TRUE, llm |-> "text"],
     [file_exists |-> TRUE, api_key_set |-> FALSE, llm |-> "text"]}
    \cup {[file_exists |-> TRUE, api_key_set |-> TRUE, llm |-> o] : o \in LlmOutcomes}

\* ------------------------------------------------------------------ state
VARIABLES
    df,     \* the dataset of the run: the caller's frame, the content of the file
    heap,   \* the frames allocated so far; heap[1] is the caller's frame
    call,   \* the operation that was called, "" before the call
    args,   \* its arguments and the world it ran in
    ret     \* what it returned or raised

vars == <<df, heap, call, args, ret>>

NoArgs == [none |-> TRUE]

Init ==
    /\ \/ \E schema \in Schemas : \E rows \in 0..MaxRowsOf(schema) :
            \E picks \in [1..rows -> RowPicks(schema)] : df = Frame(schema, picks)
       \/ \E col \in {"y", "c", "t"} : \E rows \in 1..MaxTall : \E missing \in 0..rows :
            df = Tall(col, rows, missing)
    /\ heap = <<df>>
    /\ call = ""
    /\ args = NoArgs
    /\ ret = Return(0)

\* A caller cleans its frame: simple_clean_dataframe(df).
CallSimpleCleanDataframe ==
    /\ call = ""
    /\ heap' = simple_clean_dataframe_call(heap, 1).heap
    /\ ret' = Return(simple_clean_dataframe_call(heap, 1).ref)
    /\ call' = "simple_clean_dataframe"
    /\ args' = [df |-> 1]
    /\ UNCHANGED df

\* A caller summarises its frame: compute_eda_summary(df, max_categories).
CallComputeEdaSummary ==
    /\ call = ""
    /\ \E max_categories \in 0..MaxCat :
        /\ ret' = Return(compute_eda_summary(heap[1], max_categories))
        /\ args' = [df |-> 1, max_categories |-> max_categories]
    /\ call' = "compute_eda_summary"
    /\ UNCHANGED <<df, heap>>

\* The world w with the frame file_df in the file.
World(file_df, w) ==
    [file_df |-> file_df, file_exists |-> w.file_exists, api_key_set |-> w.api_key_set,
     llm |-> w.llm]
\* What the caller of run_full_pipeline gets, and the heap the call leaves.
Outcome(r) == IF r.raised # "" THEN r ELSE Return(r.value.result)
HeapAfter(r) == IF r.raised # "" THEN <<>> ELSE r.value.heap

IsFile(frame) == Len(frame.columns) * RowCount(frame) <= MaxFileCells

\* A caller runs run_full_pipeline(tabular_path=...) on the file df.
CallRunFullPipeline ==
    /\ call = ""
    /\ IsFile(df)
    /\ \E tabular_path \in OptionalPaths : \E w \in Worlds :
        /\ args' = [tabular_path |-> tabular_path, world |-> w]
        /\ ret' = Outcome(run_full_pipeline(<<>>, [tabular_path |-> tabular_path], World(df, w)))
        /\ heap' = HeapAfter(run_full_pipeline(<<>>, [tabular_path |-> tabular_path], World(df, w)))
    /\ call' = "run_full_pipeline"
    /\ UNCHANGED df

\* A client posts a PipelineRequest to /run-pipeline/local.
CallRunPipelineLocal ==
    /\ call = ""
    /\ IsFile(df)
    /\ \E tabular_path \in OptionalPaths : \E pdf_paths \in OptionalPdfPaths : \E w \in Worlds :
        /\ args' = [request |-> [tabular_path |-> tabular_path, pdf_paths |-> pdf_paths],
                     world |-> w]
        /\ ret' = Return(run_pipeline_local(<<>>,
                        [tabular_path |-> tabular_path, pdf_paths |-> pdf_paths], World(df, w)))
    /\ call' = "run_pipeline_local"
    /\ heap' = <<>>
    /\ UNCHANGED df

Next ==
    \/ CallSimpleCleanDataframe
    \/ CallComputeEdaSummary
    \/ CallRunFullPipeline
    \/ CallRunPipelineLocal

Spec == Init /\ [][Next]_vars
\* ------------------------------------------------------------------ properties
\* After CallSimpleCleanDataframe: the frame returned; df is the frame passed.
Cleaned == heap[ret.value]
WasCleaned == call = "simple_clean_dataframe"
HasValue(frame, col) == \E i \in DOMAIN frame.data : ~IsNull(frame.data[i][col])
NumericOrObject(frame, col) == frame.dtypes[col] \in NumberDtypes \cup ObjectDtypes

\* C1: cleaning is idempotent: cleaning the cleaned frame again gives the
\* same columns, rows and values.
CleaningIsIdempotent ==
    WasCleaned => simple_clean_dataframe(Cleaned) = Cleaned

\* The column's missing fraction, missing / rows, is at most 4/5.
AtMostFourFifthsMissing(col) == 5 * MissingCount(df, col) <= 4 * RowCount(df)
\* C2: the cleaned frame's columns are exactly the input's columns whose
\* missing fraction is at most 0.8 (missing / rows <= 4/5), in their
\* original order: a column at exactly 80% stays, one at 85% goes, and with
\* no rows every column stays.
PruningDropsAboveEightyPercent ==
    WasCleaned =>
        /\ Cleaned.columns = SelectSeq(df.columns, AtMostFourFifthsMissing)
        /\ \A col \in Range(df.columns) :
            /\ 5 * MissingCount(df, col) = 4 * RowCount(df) => col \in Range(Cleaned.columns)
            /\ RowCount(df) > 0 /\ 20 * MissingCount(df, col) = 17 * RowCount(df)
                  => col \notin Range(Cleaned.columns)
        /\ RowCount(df) = 0 => Cleaned.columns = df.columns
\* A column with exactly 80% missing was kept by a cleaning that dropped nothing else of it.
ExactlyEightyPercentKept ==
    /\ WasCleaned
    /\ \E col \in Range(df.columns) :
        /\ MissingCount(df, col) > 0
        /\ 5 * MissingCount(df, col) = 4 * RowCount(df)
        /\ col \in Range(Cleaned.columns)

\* C3: after cleaning no retained numeric or text column that had a value in
\* the input has a missing cell; a retained numeric column that had none is
\* still all missing; the call returns.
NoMissingAfterCleaning ==
    WasCleaned =>
        /\ ret.raised = ""
        /\ \A col \in Range(Cleaned.columns) :
            /\ NumericOrObject(Cleaned, col) /\ HasValue(df, col) => MissingCount(Cleaned, col) = 0
            /\ Cleaned.dtypes[col] \in NumberDtypes /\ ~HasValue(df, col)
                  => \A i \in DOMAIN Cleaned.data : IsNull(Cleaned.data[i][col])
\* A numeric column and a text column with missing cells were both kept and filled.
MissingCellsWereFilled ==
    /\ WasCleaned
    /\ \E col \in Range(Cleaned.columns) :
        /\ Cleaned.dtypes[col] \in NumberDtypes
        /\ MissingCount(df, col) > 0
        /\ MissingCount(Cleaned, col) = 0
    /\ \E col \in Range(Cleaned.columns) :
        /\ Cleaned.dtypes[col] \in ObjectDtypes
        /\ MissingCount(df, col) > 0
        /\ MissingCount(Cleaned, col) = 0

\* The most frequent values of vals; the one of them that comes first in
\* vals; the one of them that is smallest in code-point order.
MostFrequent(vals) ==
    {v \in Range(vals) : \A w \in Range(vals) : Occurrences(vals, w) <= Occurrences(vals, v)}
FirstSeenMode(vals) ==
    vals[CHOOSE i \in DOMAIN vals :
            /\ vals[i] \in MostFrequent(vals)
            /\ \A j \in 1..(i - 1) : vals[j] \notin MostFrequent(vals)]
StrIndex(v) == CHOOSE i \in DOMAIN StrOrder : StrOrder[i] = v
SmallestMode(vals) ==
    CHOOSE v \in MostFrequent(vals) : \A w \in MostFrequent(vals) : StrIndex(v) <= StrIndex(w)
\* Every row of the cleaned frame holds, in every retained text column, the
\* input's cell of that row or, where that was missing, the fill value.
TextCellsFilledWith(Fill(_)) ==
    \A col \in Range(Cleaned.columns) : Cleaned.dtypes[col] \in ObjectDtypes =>
        \A p \in DOMAIN Cleaned.data :
            LET source == df.data[Cleaned.index[p] + 1][col]
                vals == DropNa(Column(df, col))
            IN  Cleaned.data[p][col] =
                    IF ~IsNull(source) THEN source
                    ELSE IF vals = <<>> THEN Val("Unknown")
                    ELSE Val(Fill(vals))

\* C4 as claimed: a missing text cell gets the column's most frequent value,
\* of equally frequent values the one first in row order, "Unknown" if the
\* column has no value.
TextFillIsFirstSeenMode == WasCleaned => TextCellsFilledWith(FirstSeenMode)
\* C4 as amended: a missing text cell gets the column's most frequent value, of
\* equally frequent values the smallest in sorted order, "Unknown" if the
\* column has no value.
TextFillIsSmallestMode == WasCleaned => TextCellsFilledWith(SmallestMode)
\* A retained text column with a missing cell had two equally frequent values.
TextFillBrokeATie ==
    /\ WasCleaned
    /\ \E col \in Range(Cleaned.columns) :
        /\ Cleaned.dtypes[col] \in ObjectDtypes
        /\ MissingCount(df, col) > 0
        /\ Cardinality(MostFrequent(DropNa(Column(df, col)))) >= 2
        /\ FirstSeenMode(DropNa(Column(df, col))) # SmallestMode(DropNa(Column(df, col)))

\* The input after pruning and imputation, before duplicates are removed.
Imputed(frame) ==
    Deref(step_fill_object(step_fill_numeric(step_drop_columns(df_copy(<<frame>>, 1)))))
\* C5: the cleaned frame has no two rows with the same values; its rows are
\* the first occurrences, in order, of the distinct rows of the pruned and
\* imputed input; it has no more rows and no more columns than the input.
DuplicatesRemovedLast ==
    WasCleaned =>
        /\ \A p, q \in DOMAIN Cleaned.data : p # q => Cleaned.data[p] # Cleaned.data[q]
        /\ LET rows == Imputed(df).data
               first == SelectSeq([i \in DOMAIN rows |-> i],
                                  LAMBDA i : \A j \in 1..(i - 1) : rows[j] # rows[i])
           IN  /\ Cleaned.data = [k \in DOMAIN first |-> rows[first[k]]]
               /\ Cleaned.index = [k \in DOMAIN first |-> first[k] - 1]
        /\ RowCount(Cleaned) <= RowCount(df)
        /\ Len(Cleaned.columns) <= Len(df.columns)

\* After CallRunFullPipeline returned a tabular result.
RanPipeline == call = "run_full_pipeline" /\ ret.raised = "" /\ ret.value.tabular.some
Tabular == ret.value.tabular.v
\* C6: simple_clean_dataframe leaves the caller's frame as it was and returns
\* another frame; the raw_df of a pipeline result is the frame as loaded.
InputNeverModified ==
    /\ WasCleaned => heap[1] = df /\ ret.value # 1
    /\ RanPipeline => heap[Tabular.raw_df] = df /\ Tabular.cleaned_df # Tabular.raw_df
\* A cleaning that dropped no column filled a missing cell.
CleaningFilledInPlace ==
    /\ WasCleaned
    /\ Cleaned.columns = df.columns
    /\ Cleaned # df
    /\ \E col \in Range(df.columns) : MissingCount(df, col) > MissingCount(Cleaned, col)

\* The path's extension is one load_tabular_file reads.
Loadable(path) == Extension(path) \in {"csv", "xlsx", "xls"}
\* C7: when the text generation cannot produce a report (no API key, a failing
\* or malformed exchange), run_full_pipeline on a readable file still returns
\* a tabular result with the computed summary and the failure string.
NarrativeFailureIsNotFatal ==
    (/\ call = "run_full_pipeline"
     /\ args.tabular_path.some
     /\ Loadable(args.tabular_path.v)
     /\ args.world.file_exists
     /\ (~args.world.api_key_set \/ args.world.llm # "text"))
    => /\ ret.raised = ""
       /\ ret.value.tabular.some
       /\ Tabular.eda_summary = compute_eda_summary(heap[Tabular.cleaned_df], DefaultMaxCategories)
       /\ Tabular.eda_report_markdown \in FailureStrings

\* C8: the endpoint answers an input-shape error (unsupported file type, no
\* path at all) with a 4xx status, a failing run on accepted input with a 5xx
\* status, and a run whose narrative failed with 200 and the failure string.
EndpointClassifiesOutcomes ==
    call = "run_pipeline_local" =>
        LET request == args.request
            w == args.world
            status == ret.value.status_code
            shape_error ==
                \/ ~request.tabular_path.some /\ ~request.pdf_paths.some
                \/ request.tabular_path.some /\ ~Loadable(request.tabular_path.v)
            readable == request.tabular_path.some /\ Loadable(request.tabular_path.v)
        IN  /\ shape_error => status \in 400..499
            /\ readable /\ ~w.file_exists => status \in 500..599
            /\ readable /\ w.file_exists /\ w.api_key_set /\ w.llm # "text" =>
                  /\ status = 200
                  /\ ret.value.body.eda_report_markdown \in FailureStrings

\* After CallComputeEdaSummary: the summary returned for the frame df.
WasSummarised == call = "compute_eda_summary"
Summary == ret.value
Numeric(frame) == {col \in Range(frame.columns) : frame.dtypes[col] \in NumberDtypes}

\* C9: missing_values has a key for a column exactly when the column has a
\* missing cell; the entry's count is the number of missing cells, at least 1,
\* and its percentage is count / rows * 100, above 0 and at most 100.
MissingValuesAreSparse ==
    WasSummarised =>
        /\ DOMAIN Summary.missing_values \subseteq Range(df.columns)
        /\ \A col \in Range(df.columns) :
            /\ col \in DOMAIN Summary.missing_values <=> MissingCount(df, col) >= 1
            /\ col \in DOMAIN Summary.missing_values =>
                LET entry == Summary.missing_values[col]
                IN  /\ entry.count = MissingCount(df, col)
                    /\ entry.count >= 1
                    /\ ~entry.pct.nan
                    /\ entry.pct.den = RowCount(df)
                    /\ entry.pct.num = 100 * entry.count
                    /\ entry.pct.den > 0
                    /\ 0 < entry.pct.num /\ entry.pct.num <= 100 * entry.pct.den
\* A summary with an entry for one column and none for another.
SomeColumnsMissingSomeNot ==
    /\ WasSummarised
    /\ \E col \in Range(df.columns) : col \in DOMAIN Summary.missing_values
    /\ \E col \in Range(df.columns) : col \notin DOMAIN Summary.missing_values

\* C10: correlations is empty unless the frame has two numeric columns, and
\* then has an entry for every ordered pair of numeric columns and nothing
\* else; numeric_stats has the numeric columns and nothing else.
CorrelationsNeedTwoNumericColumns ==
    WasSummarised =>
        /\ Cardinality(Numeric(df)) < 2 => DOMAIN Summary.correlations = {}
        /\ Cardinality(Numeric(df)) >= 2 =>
            /\ DOMAIN Summary.correlations = Numeric(df)
            /\ \A a \in Numeric(df) : DOMAIN Summary.correlations[a] = Numeric(df)
        /\ \A a \in DOMAIN Summary.correlations : \A b \in DOMAIN Summary.correlations :
            b \in DOMAIN Summary.correlations[a] <=> a \in DOMAIN Summary.correlations[b]
        /\ DOMAIN Summary.numeric_stats = Numeric(df)
\* A summary of a frame with two numeric columns and a text column.
CorrelatedWithTextColumn ==
    /\ WasSummarised
    /\ Cardinality(Numeric(df)) >= 2
    /\ \E col \in Range(df.columns) : df.dtypes[col] \in ObjectDtypes
    /\ DOMAIN Summary.correlations = Numeric(df)
\* The text columns of a frame, and the distinct values listed in an entry.
TextColumns(frame) == {col \in Range(frame.columns) : frame.dtypes[col] \in ObjectDtypes}
Listed(entry) == {entry[k].value : k \in DOMAIN entry}
\* C11: for every max_categories >= 0, categorical_top_values has an entry for
\* each text column with at most max_categories values, each value once with
\* the number of its occurrences among the column's non-missing cells, in
\* descending order of count, and no value left out occurs more often than
\* a listed one.
TopValuesAreBounded ==
    WasSummarised =>
        /\ DOMAIN Summary.categorical_top_values = TextColumns(df)
        /\ \A col \in TextColumns(df) :
            LET entry == Summary.categorical_top_values[col]
                vals == DropNa(Column(df, col))
            IN  /\ Len(entry) <= args.max_categories
                /\ args.max_categories <= Cardinality(Range(vals))
                      => Len(entry) = args.max_categories
                /\ \A k \in DOMAIN entry :
                    /\ entry[k].value \in Range(vals)
                    /\ entry[k].count = Occurrences(vals, entry[k].value)
                    /\ entry[k].count >= 1
                /\ \A j, k \in DOMAIN entry : j # k => entry[j].value # entry[k].value
                /\ \A j, k \in DOMAIN entry : j < k => entry[j].count >= entry[k].count
                /\ \A v \in Range(vals) \ Listed(entry) :
                    \A k \in DOMAIN entry : Occurrences(vals, v) <= entry[k].count
\* A summary that listed the more frequent value of a text column and left
\* out the less frequent one.
TopValuesWereTruncated ==
    /\ WasSummarised
    /\ args.max_categories >= 1
    /\ \E col \in TextColumns(df) :
        LET entry == Summary.categorical_top_values[col]
            vals == DropNa(Column(df, col))
        IN  /\ Len(entry) = args.max_categories
            /\ \E v \in Range(vals) \ Listed(entry) :
                Occurrences(vals, v) < entry[Len(entry)].count
====
